---------------------------- MODULE Spec2Model ----------------------------
(***************************************************************************)
(* Model of the statistical codec of mengelbart/syncodec                   *)
(* (statistical_codec.go): the constructor and its frame-rate option, the  *)
(* frame generator nextFrame, the scheduling loop of Start with its three  *)
(* select cases, and the public operations SetTargetBitrate,               *)
(* GetTargetBitrate and Close.                                             *)
(*                                                                         *)
(* Units.  A time.Duration is an integer counted in microseconds (the      *)
(* code counts nanoseconds; every duration the model produces is a whole   *)
(* number of microseconds).  A Laplace noise draw is an integer counted in *)
(* hundredths: the draw 250 is the noise 2.5.  Only finite draws are       *)
(* modelled (both uniform variates non-zero).                              *)
(*                                                                         *)
(* Time.  The wall clock is kept relative: instead of the instant          *)
(* c.lastTargetBitrateUpdate the model keeps time.Since of it, and instead *)
(* of the timer's deadline the time left until it is due.  The code reads  *)
(* the former only in "time.Since(c.lastTargetBitrateUpdate) < c.tau", so  *)
(* an age is kept up to tau and no further.                                *)
(***************************************************************************)
EXTENDS Integers, Sequences, FiniteSets, TLC

(***************************************************************************)
(* Program constants (statistical_codec.go, lines 14-26).                  *)
(***************************************************************************)
defaultTargetBitrateBps == 100000000
defaultFPS == 30
defaultTau == 200000
defaultBurstFrameCount == 8
defaultBurstFrameSize == 13500
defaultT0 == 33000
defaultRMin == 150000
defaultRMax == 150000000

\* time.Millisecond, in microseconds
Millisecond == 1000

(***************************************************************************)
(* Bounds of the model.                                                    *)
(***************************************************************************)
\* frames handed to the sink
MaxFrames == 2
\* calls of SetTargetBitrate
MaxSets == 2
\* calls of Start
MaxStarts == 2

\* arguments given to WithFramesPerSecond
FpsOptions == {-30, 0, 25}
\* the option lists given to NewStatisticalEncoder: none, or one frame rate
OptionLists == {<<>>} \cup {<<f>> : f \in FpsOptions}
\* arguments given to SetTargetBitrate and values sent on targetBitrateChan
Rates == {-240000, 1000000, 240000000}
\* the frame rates and target bitrates nextFrame is applied to as a function
\* of the codec's fields
FrameRates == {defaultFPS} \cup FpsOptions
Targets == {defaultTargetBitrateBps} \cup Rates
\* noise draws, in hundredths
Noises == {0, 250}
\* how far the clock moves in one step when no timer is due sooner
Delays == {200000}
\* the platforms the program is built for: they differ in the result of
\* converting an out-of-range float64 to an integer, which the program
\* does with a frame rate of 0 only; any other program counts as "amd64"
Builds(f) == IF f = 0 THEN {"amd64", "arm64"} ELSE {"amd64"}

VARIABLES
  engine,                   \* "none" before construction, then "ok"
  err,                      \* the error NewStatisticalEncoder returned
  build,                    \* the platform of the build
  fps,                      \* sc.fps
  targetBitrateBps,         \* sc.targetBitrateBps
  sinceUpdate,              \* time.Since(sc.lastTargetBitrateUpdate)
  remainingBurstFrames,     \* sc.remainingBurstFrames
  targetBitrateLock,        \* holder of sc.targetBitrateLock
  done,                     \* sc.done: "open" or "closed"
  pc,                       \* where the goroutine running Start is
  rate,                     \* Start's local rate
  frame,                    \* Start's local nextFrame
  timer,                    \* Start's timer: [armed, left]
  timerC,                   \* whether timer.C holds a value
  sink,                     \* the writer: [count, last]
  getPc,                    \* where the caller of GetTargetBitrate is
  panicked,                 \* the process died of a run-time panic
  setCalls,                 \* how often SetTargetBitrate was called
  starts,                   \* how often Start was called
  hist                      \* history kept for the properties

vars == <<engine, err, build, fps, targetBitrateBps, sinceUpdate,
          remainingBurstFrames, targetBitrateLock, done, pc, rate, frame,
          timer, timerC, sink, getPc, panicked, setCalls, starts, hist>>

(***************************************************************************)
(* Arithmetic of the Go code.                                              *)
(***************************************************************************)
Abs(x) == IF x < 0 THEN -x ELSE x

Max(x, y) == IF x >= y THEN x ELSE y

Min(x, y) == IF x <= y THEN x ELSE y

\* Go's integer division, and its conversion of a float64 quotient to an
\* integer: both truncate toward zero (b # 0)
TruncDiv(a, b) ==
  IF (a >= 0) = (b > 0) THEN Abs(a) \div Abs(b) ELSE -(Abs(a) \div Abs(b))

(***************************************************************************)
(* The configuration NewStatisticalEncoder stores: no option changes these *)
(***************************************************************************)
tau == defaultTau

burstFrameCount == defaultBurstFrameCount

burstFrameSize == defaultBurstFrameSize

t0 == defaultT0

rMin == defaultRMin

rMax == defaultRMax

\* WithFramesPerSecond(f) applied to the codec: the fps it stores and the
\* error it returns
WithFramesPerSecond(f) == [fps |-> f, err |-> "nil"]

(***************************************************************************)
(* Time.                                                                   *)
(***************************************************************************)
\* time.Since(time.Time{}): no update was accepted yet.  It is the greatest
\* Duration, which is not below tau.
Never == -1

\* the age a, d later
Age(a, d) == IF a = Never THEN Never ELSE Min(tau, a + d)

\* time.Since(c.lastTargetBitrateUpdate) < c.tau
TooSoon == sinceUpdate # Never /\ sinceUpdate < tau

(***************************************************************************)
(* nextFrame.                                                              *)
(***************************************************************************)
\* NominalDuration with the quotient kept to the microsecond instead
\* (a mutant of it)
\*   duration := time.Duration(1000.0 / float64(c.fps) * 1e6)
\* NominalDuration itself:
\*   duration := time.Duration((1.0/float64(c.fps))*1000.0) * time.Millisecond
\* The quotient is truncated to whole milliseconds.  With fps = 0 the
\* quotient is +Inf, whose conversion is implementation-dependent: amd64
\* yields the least int64 and arm64 the greatest; the multiplication by
\* 1,000,000 ns then wraps to 0 and to -1 ms.
NominalDurationExact ==
  IF fps = 0
    THEN (IF build = "amd64" THEN 0 ELSE -Millisecond)
    ELSE TruncDiv(1000 * Millisecond, fps)

NominalDuration ==
  IF fps = 0
    THEN (IF build = "amd64" THEN 0 ELSE -Millisecond)
    ELSE TruncDiv(1000, fps) * Millisecond

\* make([]byte, size): the panic it raises, "" for none
MakePanic(size) == IF size < 0 THEN "makeslice: len out of range" ELSE ""

\* nextFrame with the burst-continuation rule tried before the burst-start
\* rule (a mutant of it)
nextFrameContinuationFirst(nb, nd) ==
  LET duration == NominalDuration IN
  IF remainingBurstFrames = burstFrameCount /\ remainingBurstFrames <= 0
    THEN [panic |-> MakePanic(burstFrameSize), Content |-> burstFrameSize,
          Duration |-> duration]
  ELSE IF 8 * fps = 0
    THEN [panic |-> "integer divide by zero", Content |-> 0,
          Duration |-> duration]
  ELSE
    LET bytesPerFrame == TruncDiv(targetBitrateBps, 8 * fps) IN
    IF remainingBurstFrames > 0
      THEN LET size == TruncDiv(targetBitrateBps * burstFrameCount,
                                burstFrameSize + (burstFrameCount - 1))
           IN  [panic |-> MakePanic(size), Content |-> size,
                Duration |-> duration]
      ELSE LET noisedBytesPerFrame == Max(1 * 100, bytesPerFrame * (100 - nb))
               noisedDuration == Max(0, duration * (100 - nd))
           IN  [panic |-> "",
                Content |-> TruncDiv(noisedBytesPerFrame, 100),
                Duration |-> TruncDiv(noisedDuration, 100)]

\* the frame nextFrame returns when the noisers draw nb (size) and nd
\* (duration); panic: the message the call dies with instead, "" for none
nextFrame(nb, nd) ==
  LET duration == NominalDuration IN
  IF remainingBurstFrames = burstFrameCount
    THEN [panic |-> MakePanic(burstFrameSize), Content |-> burstFrameSize,
          Duration |-> duration]
  ELSE IF 8 * fps = 0
    THEN [panic |-> "integer divide by zero", Content |-> 0,
          Duration |-> duration]
  ELSE
    LET bytesPerFrame == TruncDiv(targetBitrateBps, 8 * fps) IN
    IF remainingBurstFrames > 0
      THEN LET size == TruncDiv(targetBitrateBps * burstFrameCount,
                                burstFrameSize + (burstFrameCount - 1))
           IN  [panic |-> MakePanic(size), Content |-> size,
                Duration |-> duration]
      ELSE LET noisedBytesPerFrame == Max(1 * 100, bytesPerFrame * (100 - nb))
               noisedDuration == Max(0, duration * (100 - nd))
           IN  [panic |-> "",
                Content |-> TruncDiv(noisedBytesPerFrame, 100),
                Duration |-> TruncDiv(noisedDuration, 100)]

(***************************************************************************)
(* State.                                                                  *)
(***************************************************************************)
NoFrame == [Content |-> 0, Duration |-> 0]

NoTimer == [armed |-> FALSE, left |-> 0]

\* the loop is between Start's first statement and its return
Running == pc \in {"select", "write", "update", "locked"}

NoHistory ==
         [ \* the last SetTargetBitrate request that came tau or more
              \* after the one before it: how long ago, and its argument
              reqAge |-> Never, reqRate |-> 0,
              \* it was made with the loop running
              reqRunning |-> FALSE,
              \* the request made since: "no" (none), "pair" (at the same
              \* instant, the loop running at both), "yes" (any other)
              reqDropped |-> "no",
              \* the frames handed to the sink since that request, if it
              \* was made with the loop running: "awaiting" (none),
              \* "first" (sink.last is the first one), else "none"
              awaiting |-> "none",
              \* what became of the last request the loop received
              outcome |-> "none",
              \* Close: "none", "issued" with the loop running, "serviced"
              shutdown |-> "none",
              \* frames handed to the sink between issued and serviced
              framesAfterClose |-> 0,
              \* what the last call of nextFrame read and drew
              gen |-> [valid |-> FALSE, target |-> 0, remaining |-> 0,
                       nb |-> 0, nd |-> 0],
              \* the message of the panic the process died of
              panic |-> "",
              \* the last call of SetTargetBitrate: whether there was one,
              \* and its argument
              set |-> [called |-> FALSE, r |-> 0] ]

Init ==
  /\ engine = "none"
  /\ err = "nil"
  /\ build = "amd64"
  /\ fps = 0
  /\ targetBitrateBps = 0
  /\ sinceUpdate = Never
  /\ remainingBurstFrames = 0
  /\ targetBitrateLock = "free"
  /\ done = "open"
  /\ pc = "idle"
  /\ rate = 0
  /\ frame = NoFrame
  /\ timer = NoTimer
  /\ timerC = FALSE
  /\ sink = [count |-> 0, last |-> NoFrame]
  /\ getPc = "idle"
  /\ panicked = FALSE
  /\ setCalls = 0
  /\ starts = 0
  /\ hist = NoHistory

\* a run-time panic in any goroutine ends the process: its goroutines stop
\* where they are and its memory is gone.  What stays is that it died, of
\* what, with which configuration, and whether a shutdown was still to be
\* serviced.
Panic(msg) ==
  /\ panicked' = TRUE
  /\ pc' = "dead"
  /\ getPc' = "dead"
  /\ targetBitrateBps' = 0
  /\ sinceUpdate' = Never
  /\ remainingBurstFrames' = 0
  /\ targetBitrateLock' = "free"
  /\ rate' = 0
  /\ frame' = NoFrame
  /\ timer' = NoTimer
  /\ timerC' = FALSE
  /\ sink' = [count |-> 0, last |-> NoFrame]
  /\ setCalls' = 0
  /\ starts' = 0
  /\ hist' = [NoHistory EXCEPT !.shutdown = hist.shutdown, !.panic = msg]
  /\ UNCHANGED <<engine, err, build, fps, done>>

(***************************************************************************)
(* Construction.                                                           *)
(***************************************************************************)
\* NewStatisticalEncoder(w, opts...): the defaults, then each option; an
\* option's error is returned with no codec
NewStatisticalEncoder(opts) ==
  /\ engine = "none"
  /\ LET r == IF Len(opts) = 0
                THEN [fps |-> defaultFPS, err |-> "nil"]
                ELSE WithFramesPerSecond(opts[1])
     IN  /\ err' = r.err
         /\ engine' = IF r.err = "nil" THEN "ok" ELSE "failed"
         /\ fps' = r.fps
         /\ build' \in Builds(r.fps)
  /\ targetBitrateBps' = defaultTargetBitrateBps
  /\ sinceUpdate' = Never
  /\ remainingBurstFrames' = 0
  /\ targetBitrateLock' = "free"
  /\ done' = "open"
  /\ UNCHANGED <<pc, rate, frame, timer, timerC, sink, getPc, panicked,
                 setCalls, starts, hist>>

(***************************************************************************)
(* The public operations, each called from a goroutine of its own.         *)
(***************************************************************************)
\* SetTargetBitrate storing r clamped to [rMin, rMax] (a mutant of it)
\*   c.targetBitrateBps = max(c.rMin, min(c.rMax, r))
SetTargetBitrateClamped(r) ==
  /\ engine = "ok" /\ ~panicked
  /\ setCalls < MaxSets
  /\ targetBitrateBps' = Max(rMin, Min(rMax, r))
  /\ setCalls' = setCalls + 1
  /\ LET admitted == hist.reqAge = Never \/ hist.reqAge >= tau IN
     hist' = [hist EXCEPT
       !.reqAge = IF admitted THEN 0 ELSE @,
       !.reqRate = IF admitted THEN r ELSE @,
       !.reqRunning = IF admitted THEN Running ELSE @,
       !.reqDropped = IF admitted THEN "no"
                      ELSE IF hist.reqAge = 0 /\ hist.reqRunning /\ Running
                        THEN "pair"
                      ELSE "yes",
       !.awaiting = IF ~admitted THEN @
                    ELSE IF Running THEN "awaiting"
                    ELSE "none",
       !.set = [called |-> TRUE, r |-> r]]
  /\ UNCHANGED <<engine, err, build, fps, sinceUpdate, remainingBurstFrames,
                 targetBitrateLock, done, pc, rate, frame, timer, timerC,
                 sink, getPc, panicked, starts>>

\* SetTargetBitrate starting a burst itself (a mutant of it)
\*   c.targetBitrateBps = r; c.remainingBurstFrames = c.burstFrameCount
SetTargetBitrateBurst(r) ==
  /\ engine = "ok" /\ ~panicked
  /\ setCalls < MaxSets
  /\ targetBitrateBps' = r
  /\ remainingBurstFrames' = burstFrameCount
  /\ setCalls' = setCalls + 1
  /\ LET admitted == hist.reqAge = Never \/ hist.reqAge >= tau IN
     hist' = [hist EXCEPT
       !.reqAge = IF admitted THEN 0 ELSE @,
       !.reqRate = IF admitted THEN r ELSE @,
       !.reqRunning = IF admitted THEN Running ELSE @,
       !.reqDropped = IF admitted THEN "no"
                      ELSE IF hist.reqAge = 0 /\ hist.reqRunning /\ Running
                        THEN "pair"
                      ELSE "yes",
       !.awaiting = IF ~admitted THEN @
                    ELSE IF Running THEN "awaiting"
                    ELSE "none",
       !.set = [called |-> TRUE, r |-> r]]
  /\ UNCHANGED <<engine, err, build, fps, sinceUpdate,
                 targetBitrateLock, done, pc, rate, frame, timer, timerC,
                 sink, getPc, panicked, starts>>

\* SetTargetBitrate(r): one plain store, without the lock
SetTargetBitrate(r) ==
  /\ engine = "ok" /\ ~panicked
  /\ setCalls < MaxSets
  /\ targetBitrateBps' = r
  /\ setCalls' = setCalls + 1
  /\ LET admitted == hist.reqAge = Never \/ hist.reqAge >= tau IN
     hist' = [hist EXCEPT
       !.reqAge = IF admitted THEN 0 ELSE @,
       !.reqRate = IF admitted THEN r ELSE @,
       !.reqRunning = IF admitted THEN Running ELSE @,
       !.reqDropped = IF admitted THEN "no"
                      ELSE IF hist.reqAge = 0 /\ hist.reqRunning /\ Running
                        THEN "pair"
                      ELSE "yes",
       !.awaiting = IF ~admitted THEN @
                    ELSE IF Running THEN "awaiting"
                    ELSE "none",
       !.set = [called |-> TRUE, r |-> r]]
  /\ UNCHANGED <<engine, err, build, fps, sinceUpdate, remainingBurstFrames,
                 targetBitrateLock, done, pc, rate, frame, timer, timerC,
                 sink, getPc, panicked, starts>>

\* GetTargetBitrate, first half: c.targetBitrateLock.Lock()
GetTargetBitrateLock ==
  /\ engine = "ok" /\ ~panicked
  /\ getPc = "idle"
  /\ targetBitrateLock = "free"
  /\ targetBitrateLock' = "get"
  /\ getPc' = "locked"
  /\ UNCHANGED <<engine, err, build, fps, targetBitrateBps, sinceUpdate,
                 remainingBurstFrames, done, pc, rate, frame, timer, timerC,
                 sink, panicked, setCalls, starts, hist>>

\* GetTargetBitrate, second half: return c.targetBitrateBps, and the
\* deferred Unlock()
GetTargetBitrateReturn ==
  /\ ~panicked
  /\ getPc = "locked"
  /\ targetBitrateLock' = "free"
  /\ getPc' = "idle"
  /\ UNCHANGED <<engine, err, build, fps, targetBitrateBps, sinceUpdate,
                 remainingBurstFrames, done, pc, rate, frame, timer, timerC,
                 sink, panicked, setCalls, starts, hist>>

\* Close: close(c.done); closing a closed channel is a run-time panic
Close ==
  /\ engine = "ok" /\ ~panicked
  /\ IF done = "open"
       THEN /\ done' = "closed"
            /\ hist' = [hist EXCEPT
                 !.shutdown = IF Running THEN "issued" ELSE @]
            /\ UNCHANGED <<engine, err, build, fps, targetBitrateBps,
                           sinceUpdate, remainingBurstFrames,
                           targetBitrateLock, pc, rate, frame, timer,
                           timerC, sink, getPc, panicked, setCalls, starts>>
       ELSE Panic("close of closed channel")

(***************************************************************************)
(* Start: the scheduling loop.                                             *)
(***************************************************************************)
\* timer := time.NewTimer(c.t0), and the loop reaches its select
Start ==
  /\ engine = "ok" /\ ~panicked
  /\ pc \in {"idle", "returned"}
  /\ starts < MaxStarts
  /\ starts' = starts + 1
  /\ timer' = [armed |-> TRUE, left |-> t0]
  /\ timerC' = FALSE
  /\ pc' = "select"
  /\ UNCHANGED <<engine, err, build, fps, targetBitrateBps, sinceUpdate,
                 remainingBurstFrames, targetBitrateLock, done, rate, frame,
                 sink, getPc, panicked, setCalls, hist>>

\* the timer of the running loop is due
TimerDue == Running /\ timer.armed /\ timer.left <= 0

\* the runtime sends on timer.C when the timer is due
TimerExpire ==
  /\ ~panicked
  /\ TimerDue
  /\ timer' = NoTimer
  /\ timerC' = TRUE
  /\ UNCHANGED <<engine, err, build, fps, targetBitrateBps, sinceUpdate,
                 remainingBurstFrames, targetBitrateLock, done, pc, rate,
                 frame, sink, getPc, panicked, setCalls, starts, hist>>

\* TimerCase with every burst frame counted down (a mutant of it)
\*   nextFrame := c.nextFrame()
\*   if c.remainingBurstFrames > 0 { c.remainingBurstFrames-- }
TimerCaseCountDown(nb, nd) ==
  /\ ~panicked
  /\ pc = "select"
  /\ timerC
  /\ sink.count < MaxFrames
  /\ LET f == nextFrame(nb, nd) IN
     IF f.panic # ""
       THEN Panic(f.panic)
       ELSE /\ timerC' = FALSE
            /\ pc' = "write"
            /\ frame' = [Content |-> f.Content, Duration |-> f.Duration]
            /\ sink' = [count |-> sink.count + 1, last |-> frame']
            /\ hist' = [hist EXCEPT
                 !.awaiting = IF @ = "awaiting" THEN "first" ELSE "none",
                 !.framesAfterClose = IF hist.shutdown = "issued"
                                        THEN @ + 1 ELSE @,
                 !.gen = [valid |-> TRUE, target |-> targetBitrateBps,
                          remaining |-> remainingBurstFrames,
                          nb |-> nb, nd |-> nd]]
            /\ remainingBurstFrames' = IF remainingBurstFrames > 0
                                         THEN remainingBurstFrames - 1
                                         ELSE remainingBurstFrames
            /\ UNCHANGED <<engine, err, build, fps, targetBitrateBps,
                           sinceUpdate,
                           targetBitrateLock, done, rate, timer, getPc,
                           panicked, setCalls, starts>>

\* case <-timer.C: nextFrame := c.nextFrame(), and the call of
\* c.writer.WriteFrame(nextFrame)
TimerCase(nb, nd) ==
  /\ ~panicked
  /\ pc = "select"
  /\ timerC
  /\ sink.count < MaxFrames
  /\ LET f == nextFrame(nb, nd) IN
     IF f.panic # ""
       THEN Panic(f.panic)
       ELSE /\ timerC' = FALSE
            /\ pc' = "write"
            /\ frame' = [Content |-> f.Content, Duration |-> f.Duration]
            /\ sink' = [count |-> sink.count + 1, last |-> frame']
            /\ hist' = [hist EXCEPT
                 !.awaiting = IF @ = "awaiting" THEN "first" ELSE "none",
                 !.framesAfterClose = IF hist.shutdown = "issued"
                                        THEN @ + 1 ELSE @,
                 !.gen = [valid |-> TRUE, target |-> targetBitrateBps,
                          remaining |-> remainingBurstFrames,
                          nb |-> nb, nd |-> nd]]
            /\ UNCHANGED <<engine, err, build, fps, targetBitrateBps,
                           sinceUpdate, remainingBurstFrames,
                           targetBitrateLock, done, rate, timer, getPc,
                           panicked, setCalls, starts>>

\* WriteFrame returns, and timer.Reset(nextFrame.Duration)
WriteReturn ==
  /\ ~panicked
  /\ pc = "write"
  /\ timer' = [armed |-> TRUE, left |-> frame.Duration]
  /\ pc' = "select"
  /\ UNCHANGED <<engine, err, build, fps, targetBitrateBps, sinceUpdate,
                 remainingBurstFrames, targetBitrateLock, done, rate, frame,
                 timerC, sink, getPc, panicked, setCalls, starts, hist>>

\* RateCase with a dropped request restarting the latency window (a mutant
\* of it)
\*   if time.Since(c.lastTargetBitrateUpdate) < c.tau {
\*       c.lastTargetBitrateUpdate = time.Now(); continue }
RateCaseExtend(r) ==
  /\ ~panicked
  /\ pc = "select"
  /\ IF TooSoon
       THEN /\ UNCHANGED <<pc, rate>>
            /\ sinceUpdate' = 0
            /\ hist' = [hist EXCEPT !.outcome = "dropped"]
       ELSE /\ pc' = "update"
            /\ rate' = r
            /\ sinceUpdate' = sinceUpdate
            /\ hist' = hist
  /\ UNCHANGED <<engine, err, build, fps, targetBitrateBps,
                 remainingBurstFrames, targetBitrateLock, done, frame, timer,
                 timerC, sink, getPc, panicked, setCalls, starts>>

\* case rate := <-c.targetBitrateChan, with a sender offering r: the
\* reaction-latency test, which drops the request (continue) or goes on
RateCase(r) ==
  /\ ~panicked
  /\ pc = "select"
  /\ IF TooSoon
       THEN /\ UNCHANGED <<pc, rate>>
            /\ hist' = [hist EXCEPT !.outcome = "dropped"]
       ELSE /\ pc' = "update"
            /\ rate' = r
            /\ hist' = hist
  /\ UNCHANGED <<engine, err, build, fps, targetBitrateBps, sinceUpdate,
                 remainingBurstFrames, targetBitrateLock, done, frame, timer,
                 timerC, sink, getPc, panicked, setCalls, starts>>

\* c.targetBitrateLock.Lock()
UpdateLock ==
  /\ ~panicked
  /\ pc = "update"
  /\ targetBitrateLock = "free"
  /\ targetBitrateLock' = "loop"
  /\ pc' = "locked"
  /\ UNCHANGED <<engine, err, build, fps, targetBitrateBps, sinceUpdate,
                 remainingBurstFrames, done, rate, frame, timer, timerC,
                 sink, getPc, panicked, setCalls, starts, hist>>

\* UpdateStore with the burst counted one frame too long (a mutant of it)
\*   c.remainingBurstFrames = c.burstFrameCount + 1
UpdateStoreOneMore ==
  /\ ~panicked
  /\ pc = "locked"
  /\ targetBitrateBps' = rate
  /\ targetBitrateLock' = "free"
  /\ sinceUpdate' = 0
  /\ remainingBurstFrames' = burstFrameCount + 1
  /\ pc' = "select"
  /\ rate' = 0
  /\ hist' = [hist EXCEPT !.outcome = "accepted"]
  /\ UNCHANGED <<engine, err, build, fps, done, frame, timer, timerC, sink,
                 getPc, panicked, setCalls, starts>>

\* c.targetBitrateBps = rate; Unlock(); c.lastTargetBitrateUpdate =
\* time.Now(); c.remainingBurstFrames = c.burstFrameCount; the local rate
\* is dead from here on
UpdateStore ==
  /\ ~panicked
  /\ pc = "locked"
  /\ targetBitrateBps' = rate
  /\ targetBitrateLock' = "free"
  /\ sinceUpdate' = 0
  /\ remainingBurstFrames' = burstFrameCount
  /\ pc' = "select"
  /\ rate' = 0
  /\ hist' = [hist EXCEPT !.outcome = "accepted"]
  /\ UNCHANGED <<engine, err, build, fps, done, frame, timer, timerC, sink,
                 getPc, panicked, setCalls, starts>>

\* case <-c.done: return; the timer is abandoned
DoneCase ==
  /\ ~panicked
  /\ pc = "select"
  /\ done = "closed"
  /\ pc' = "returned"
  /\ timer' = NoTimer
  /\ timerC' = FALSE
  /\ hist' = [hist EXCEPT
       !.shutdown = IF @ = "issued" THEN "serviced" ELSE @]
  /\ UNCHANGED <<engine, err, build, fps, targetBitrateBps, sinceUpdate,
                 remainingBurstFrames, targetBitrateLock, done, rate, frame,
                 sink, getPc, panicked, setCalls, starts>>

(***************************************************************************)
(* The clock.                                                              *)
(***************************************************************************)
\* the timer of the running loop is armed and not yet due
TimerPending == Running /\ timer.armed /\ timer.left > 0

\* the loop waits in select with a case it can take at once: the timer's
\* channel holds the expiry and the sink takes another frame, or done is
\* closed
SelectReady ==
  /\ pc = "select"
  /\ \/ timerC /\ sink.count < MaxFrames
     \/ done = "closed"

\* time passes: by d, or until the timer is due if that is sooner; a due
\* timer expires, and a loop that can go on goes on, before time passes
Advance(d) ==
  /\ engine = "ok" /\ ~panicked
  /\ ~TimerDue
  /\ ~SelectReady
  /\ LET step == IF TimerPending THEN Min(d, timer.left) ELSE d IN
     /\ timer' = IF TimerPending
                   THEN [timer EXCEPT !.left = @ - step]
                   ELSE timer
     /\ sinceUpdate' = Age(sinceUpdate, step)
     /\ hist' = [hist EXCEPT !.reqAge = Age(@, step)]
  /\ UNCHANGED <<engine, err, build, fps, targetBitrateBps,
                 remainingBurstFrames, targetBitrateLock, done, pc, rate,
                 frame, timerC, sink, getPc, panicked, setCalls, starts>>

(***************************************************************************)
(* Specifications.                                                         *)
(***************************************************************************)
\* what the two specifications share: construction, the loop's timer and
\* shutdown cases, GetTargetBitrate, Close and the clock
Base ==
  \/ \E opts \in OptionLists : NewStatisticalEncoder(opts)
  \/ GetTargetBitrateLock
  \/ GetTargetBitrateReturn
  \/ Close
  \/ Start
  \/ TimerExpire
  \/ \E nb \in Noises, nd \in Noises : TimerCase(nb, nd)
  \/ WriteReturn
  \/ DoneCase
  \/ \E d \in Delays : Advance(d)

\* the program driven through its exported functions alone: nothing in
\* statistical_codec.go sends on targetBitrateChan
Next ==
  \/ Base
  \/ \E r \in Rates : SetTargetBitrate(r)

Spec == Init /\ [][Next]_vars

\* the program whose bitrate requests reach the loop on targetBitrateChan,
\* sent by code of package syncodec outside statistical_codec.go
NextChan ==
  \/ Base
  \/ \E r \in Rates : RateCase(r)
  \/ UpdateLock
  \/ UpdateStore

SpecChan == Init /\ [][NextChan]_vars

\* the scheduling the Go runtime gives the loop: a ready goroutine runs,
\* WriteFrame returns, and select chooses among its ready cases at random,
\* so a case that is ready again and again is chosen in the end
FairSpec ==
  /\ Spec
  /\ WF_vars(TimerExpire)
  /\ WF_vars(WriteReturn)
  /\ SF_vars(DoneCase)


\* nextFrame as a function of the codec's fields: the loop has received
\* from timer.C, with any frame rate, target bitrate and
\* remainingBurstFrames in 0 .. burstFrameCount, and calls nextFrame
InitFrame ==
  /\ engine = "ok"
  /\ err = "nil"
  /\ fps \in FrameRates
  /\ build \in Builds(fps)
  /\ targetBitrateBps \in Targets
  /\ sinceUpdate = Never
  /\ remainingBurstFrames \in 0 .. burstFrameCount
  /\ targetBitrateLock = "free"
  /\ done = "open"
  /\ pc = "select"
  /\ rate = 0
  /\ frame = NoFrame
  /\ timer = NoTimer
  /\ timerC = TRUE
  /\ sink = [count |-> 0, last |-> NoFrame]
  /\ getPc = "idle"
  /\ panicked = FALSE
  /\ setCalls = 0
  /\ starts = 1
  /\ hist = NoHistory

NextFrame == \E nb \in Noises, nd \in Noises : TimerCase(nb, nd)

SpecFrame == InitFrame /\ [][NextFrame]_vars

(***************************************************************************)
(* Properties.                                                             *)
(***************************************************************************)
\* the floor of a / b (b # 0)
FloorDiv(a, b) == IF b > 0 THEN a \div b ELSE (-a) \div (-b)

\* C1: when a SetTargetBitrate request comes less than tau after the last
\* one that came, with the loop running, tau or more after its predecessor,
\* it is dropped: as long as tau has not passed since the earlier request,
\* the target bitrate (what GetTargetBitrate reads under the lock) is the
\* earlier request's.
C1_SecondRequestDropped ==
  (hist.reqRunning /\ hist.reqDropped # "no" /\ hist.reqAge < tau)
    => targetBitrateBps = hist.reqRate

\* C2: the first frame handed to the sink after a SetTargetBitrate request
\* that was made with the loop running, tau or more after the last such
\* request, is a burst-start frame: burstFrameSize bytes, nominal duration.
C2_FirstFrameIsBurst ==
  hist.awaiting = "first"
    => /\ sink.last.Content = burstFrameSize
       /\ sink.last.Duration = NominalDuration

\* C3: every frame handed to the sink has at least 1 byte and a duration
\* of at least 0.
C3_FrameFloors ==
  sink.count > 0 => sink.last.Content >= 1 /\ sink.last.Duration >= 0

\* C4: once the codec is constructed, targetBitrateBps is written by the
\* loop alone, holding targetBitrateLock: SetTargetBitrate writes nothing.
C4_WritesUnderLock ==
  [][(engine = "ok" /\ ~panicked' /\ targetBitrateBps' # targetBitrateBps)
       => (pc = "locked" /\ targetBitrateLock = "loop")]_vars

\* C5: once Close is called with the loop running, Start returns in the end.
C5_StartReturns == (hist.shutdown = "issued") ~> (pc = "returned")

\* C6: at most one frame is handed to the sink between a Close called with
\* the loop running and the loop's return.
C6_AtMostOneFrameAfterClose == hist.framesAfterClose <= 1

\* the last frame was generated in steady state with both noise draws 0
SteadyNoNoise ==
  /\ hist.gen.valid
  /\ hist.gen.remaining = 0
  /\ hist.gen.nb = 0
  /\ hist.gen.nd = 0

\* C7, as claimed: a frame generated in steady state with both noise draws
\* 0 has exactly floor(targetBitrateBps / (8 * fps)) bytes and lasts
\* exactly 1000/fps milliseconds, with no truncation to a whole millisecond.
C7_ExactRate ==
  SteadyNoNoise
    => /\ sink.last.Content = FloorDiv(hist.gen.target, 8 * fps)
       /\ sink.last.Duration * fps = 1000 * Millisecond

\* C7, amended: such a frame has targetBitrateBps / (8 * fps) bytes, the
\* quotient truncated toward zero, but at least 1; and it lasts 1000/fps
\* milliseconds truncated to a whole millisecond, but at least 0.
C7_TruncatedRate ==
  SteadyNoNoise
    => /\ sink.last.Content = Max(1, TruncDiv(hist.gen.target, 8 * fps))
       /\ sink.last.Duration = Max(0, TruncDiv(1000, fps) * Millisecond)

\* C7's case: 1,000,000 bit/s at 30 frames per second, neither draw
\* perturbing: a frame of 4,166 bytes lasting 33 ms
C7_Witness ==
  /\ SteadyNoNoise
  /\ fps = 30
  /\ hist.gen.target = 1000000
  /\ sink.last = [Content |-> 4166, Duration |-> 33 * Millisecond]

\* C8: two SetTargetBitrate calls at the same instant, the loop running,
\* trigger one burst, at the first call: until the next frame,
\* remainingBurstFrames is burstFrameCount and the last accepted update is
\* as old as the first call.
C8_PairTriggersOneBurst ==
  (hist.reqDropped = "pair" /\ hist.awaiting = "awaiting")
    => /\ remainingBurstFrames = burstFrameCount
       /\ sinceUpdate = hist.reqAge

\* C9: NewStatisticalEncoder returns a codec only with fps > 0; with a
\* frame-rate option of 0 or less it returns an error and no codec.
C9_FpsPositive ==
  engine # "none" => \/ engine = "ok" /\ fps > 0
                     \/ engine = "failed" /\ err # "nil"

\* C10: a second call of Close returns like the first: it does not end the
\* process with a panic.
C10_SecondCloseReturns == hist.panic # "close of closed channel"

\* the running invocation of Start began after Close was called
LateStart == Running /\ done = "closed" /\ hist.shutdown # "issued"

\* C11: an invocation of Start that begins after Close was called hands no
\* frame to the sink and accepts no bitrate update.
C11_NoRestartAfterClose ==
  [][LateStart => /\ ~(sink.count' > sink.count)
                  /\ ~(pc = "locked" /\ pc' = "select")]_vars

\* C12: every burst frame handed to the sink (a frame generated with
\* remainingBurstFrames > 0) decrements remainingBurstFrames by one, so that
\* burstFrameCount frames after an accepted update the codec is steady again.
C12_BurstCountsDown ==
  [][(sink.count' > sink.count /\ remainingBurstFrames > 0)
       => remainingBurstFrames' = remainingBurstFrames - 1]_vars

\* the loop takes the timer case: it receives from timer.C and calls
\* nextFrame, which returns a frame or panics
TimerCaseTaken ==
  /\ pc = "select" /\ timerC /\ ~timerC'
  /\ \/ pc' = "write"
     \/ hist'.panic \in {"integer divide by zero",
                         "makeslice: len out of range"}

\* C13: Start arms the timer with t0 and the timer fires when that time is
\* up; every firing the loop takes generates one frame and hands that frame
\* to the sink once; when WriteFrame returns the timer is rearmed with that
\* frame's Duration; and no frame reaches the sink in any other way.
C13_OneFramePerFiring ==
  [][/\ (pc \in {"idle", "returned"} /\ pc' = "select")
          => timer' = [armed |-> TRUE, left |-> t0]
     /\ (~timerC /\ timerC') => (timer.armed /\ timer.left <= 0)
     /\ TimerCaseTaken
          => /\ pc' = "write"
             /\ sink'.count = sink.count + 1
             /\ sink'.last = frame'
     /\ (pc = "write" /\ pc' = "select")
          => /\ timer' = [armed |-> TRUE, left |-> sink.last.Duration]
             /\ sink' = sink
     /\ (~panicked' /\ sink' # sink) => TimerCaseTaken]_vars

\* C14: in every reachable state 0 <= remainingBurstFrames <= burstFrameCount.
C14_RemainingInRange ==
  0 <= remainingBurstFrames /\ remainingBurstFrames <= burstFrameCount

\* C14's case: an update was accepted, frames were handed to the sink, and
\* Close was called
C14_Witness ==
  /\ hist.outcome = "accepted"
  /\ remainingBurstFrames = burstFrameCount
  /\ sink.count = MaxFrames
  /\ done = "closed"

\* C15: a request the loop receives less than tau after the last accepted
\* update is dropped: it is never stored, and the step that drops it leaves
\* targetBitrateBps, the time of the last accepted update and
\* remainingBurstFrames as they are and the loop running, back in select.
C15_DropChangesNothing ==
  [][/\ (pc = "select" /\ pc' = "update") => ~TooSoon
     /\ (hist.outcome # "dropped" /\ hist'.outcome = "dropped")
          => /\ TooSoon
             /\ targetBitrateBps' = targetBitrateBps
             /\ sinceUpdate' = sinceUpdate
             /\ remainingBurstFrames' = remainingBurstFrames
             /\ pc = "select" /\ pc' = "select"]_vars

\* C15's case: 33 ms after an update was accepted the loop, still running,
\* has dropped a request
C15_Witness ==
  /\ hist.outcome = "dropped"
  /\ sinceUpdate = 33 * Millisecond
  /\ remainingBurstFrames = burstFrameCount
  /\ pc = "select"

\* the size of a steady-state frame for the target bitrate r and the size
\* noise nb (in hundredths): max(1, r / (8 * fps) * (1 - nb)), truncated
SteadySize(r, nb) ==
  TruncDiv(Max(100, TruncDiv(r, 8 * fps) * (100 - nb)), 100)

\* C16: after SetTargetBitrate(r) with r outside [rMin, rMax], the target
\* bitrate (what GetTargetBitrate reads under the lock) is r itself, not r
\* clamped, and every frame generated from then on is sized from r.
C16_StoredUnclamped ==
  [][(hist'.set.called /\ (hist'.set.r < rMin \/ hist'.set.r > rMax))
       => /\ targetBitrateBps' = hist'.set.r
          /\ (hist.set = hist'.set /\ sink'.count > sink.count)
               => /\ hist'.gen.target = hist.set.r
                  /\ sink'.last.Content = SteadySize(hist.set.r, hist'.gen.nb)
    ]_vars

\* C16's case: after SetTargetBitrate(240000000), above rMax, a caller of
\* GetTargetBitrate holds the lock and reads 240000000, and the last frame
\* was generated from it with no size noise: 1,000,000 bytes at 30 fps
C16_Witness ==
  /\ hist.set = [called |-> TRUE, r |-> 240000000]
  /\ getPc = "locked"
  /\ targetBitrateBps = 240000000
  /\ fps = 30
  /\ hist.gen.valid /\ hist.gen.target = 240000000 /\ hist.gen.nb = 0
  /\ sink.last.Content = 1000000

\* C17: the frame nextFrame returns with 0 < remainingBurstFrames <
\* burstFrameCount has (targetBitrateBps * burstFrameCount) / (burstFrameSize
\* + burstFrameCount - 1) bytes, integer division, and the nominal duration,
\* whatever the noisers would draw; the burst-start rule comes first (with
\* remainingBurstFrames = burstFrameCount the frame has burstFrameSize
\* bytes) and the steady-state rule last (remainingBurstFrames = 0).
C17_BurstContinuation ==
  hist.gen.valid =>
    /\ (0 < hist.gen.remaining /\ hist.gen.remaining < burstFrameCount)
         => /\ sink.last.Content =
                 TruncDiv(hist.gen.target * burstFrameCount,
                          burstFrameSize + burstFrameCount - 1)
            /\ sink.last.Duration = NominalDuration
    /\ hist.gen.remaining = burstFrameCount
         => /\ sink.last.Content = burstFrameSize
            /\ sink.last.Duration = NominalDuration
    /\ hist.gen.remaining = 0
         => sink.last.Content = SteadySize(hist.gen.target, hist.gen.nb)

\* C17's case: 1,000,000 bit/s at 30 frames per second with 3 burst frames
\* remaining and both noisers at 2.5: 8,000,000 / 13,507 = 592 bytes, 33 ms
C17_Witness ==
  /\ hist.gen = [valid |-> TRUE, target |-> 1000000, remaining |-> 3,
                 nb |-> 250, nd |-> 250]
  /\ fps = 30
  /\ sink.last = [Content |-> 592, Duration |-> 33 * Millisecond]

\* the value targetBitrateBps was last given: by the last call of
\* SetTargetBitrate, or else by the constructor
LastWritten ==
  IF hist.set.called THEN hist.set.r ELSE defaultTargetBitrateBps

\* C18: through the public operations alone remainingBurstFrames stays 0,
\* no update is ever accepted (the time of the last one stays the zero
\* time) and the loop never gets past the reaction-latency test; every
\* frame handed to the sink is a steady-state frame sized from the value
\* SetTargetBitrate last wrote.
C18_NoBurstEver ==
  [][/\ remainingBurstFrames' = 0
     /\ sinceUpdate' = Never
     /\ pc' \notin {"update", "locked"}
     /\ hist'.outcome = "none"
     /\ sink'.count > sink.count
          => /\ hist'.gen.remaining = 0
             /\ hist'.gen.target = LastWritten
             /\ sink'.last.Content = SteadySize(LastWritten, hist'.gen.nb)
             /\ sink'.last.Duration =
                  TruncDiv(Max(0, NominalDuration * (100 - hist'.gen.nd)),
                           100)]_vars

\* C18's case: SetTargetBitrate(1000000) was called with the loop running,
\* and the frames handed to the sink since are steady-state frames of
\* 1,000,000 / 240 = 4,166 bytes
C18_Witness ==
  /\ hist.set = [called |-> TRUE, r |-> 1000000]
  /\ hist.awaiting = "none" /\ hist.reqRunning
  /\ sink.count = MaxFrames
  /\ remainingBurstFrames = 0 /\ sinceUpdate = Never
  /\ fps = 30 /\ hist.gen.nb = 0
  /\ sink.last.Content = 4166

\* C19: with requests delivered on the channel, remainingBurstFrames is 0
\* or burstFrameCount in every state, so no frame is generated by the
\* burst-continuation rule; and once an update has been accepted
\* remainingBurstFrames stays burstFrameCount as long as the process lives,
\* and every frame handed to the sink from then on has burstFrameSize bytes
\* and the nominal duration.
C19_BurstForever ==
  [][/\ remainingBurstFrames' \in {0, burstFrameCount}
     /\ hist'.gen.valid => hist'.gen.remaining \in {0, burstFrameCount}
     /\ (remainingBurstFrames = burstFrameCount /\ ~panicked')
          => /\ remainingBurstFrames' = burstFrameCount
             /\ sink'.count > sink.count
                  => sink'.last = [Content |-> burstFrameSize,
                                   Duration |-> NominalDuration]]_vars

\* C19's case: at 25 frames per second an update was accepted, and after
\* the frames handed to the sink remainingBurstFrames is still
\* burstFrameCount and the last frame a burst-start frame of 13,500 bytes
\* and 40 ms
C19_Witness ==
  /\ hist.outcome = "accepted"
  /\ remainingBurstFrames = burstFrameCount
  /\ sink.count = MaxFrames
  /\ hist.gen.valid /\ hist.gen.remaining = burstFrameCount
  /\ fps = 25
  /\ sink.last = [Content |-> burstFrameSize, Duration |-> 40 * Millisecond]

=============================================================================
